---- MODULE Spec2Model ----
(***************************************************************************)
(* VPC Route Cost Dashboard (src/streamlit_app.py).                        *)
(*                                                                         *)
(* The script main() is re-run from its first line on every interaction    *)
(* (upload, replacement or removal of the file, change of a select box).   *)
(* One action of this module is one interaction followed by the whole run  *)
(* of main().                                                              *)
(*                                                                         *)
(* Values.  A spreadsheet cell is a tuple: <<v>> holds the value v, <<>>   *)
(* is the missing value (float NaN in pandas: an empty cell, or a text     *)
(* that read_excel treats as NA).  A mean is NaN or a fraction <<n, d>>    *)
(* with d > 0, so that no rounding enters the comparison of two means.     *)
(* A DataFrame is [columns: set of names, rows: sequence of functions      *)
(* columns -> cell].                                                       *)
(***************************************************************************)
EXTENDS Integers, Sequences, FiniteSets, TLC

VARIABLES
    uploaded_file,               \* value of st.file_uploader (line 13)
    selected,                    \* values of the four select boxes (34-37)
    status,                      \* how the last run of main() ended
    shown,                       \* UI elements the last run displayed
    options,                     \* origin/destination/fleet/month _options
    data,                        \* local `data` at the end of the run
    filtered_data,               \* local `filtered_data` at the end of the run
    displayed_data,              \* frame handed to st.dataframe at line 65
    summary,                     \* total_trips, total_revenue, average_*
    summary_by_month_and_fleet   \* aggregate table shown and charted

vars == <<uploaded_file, selected, status, shown, options, data,
          filtered_data, displayed_data, summary, summary_by_month_and_fleet>>

-----------------------------------------------------------------------------
(* Bounds of the model *)

\* Largest number of rows of an uploaded sheet.
MaxRows == 2

-----------------------------------------------------------------------------
(* Cells, numbers *)

NaN == <<>>
Cell(v) == <<v>>
Val(c) == c[1]
All == Cell("All")

Range(s) == {s[i] : i \in 1..Len(s)}

\* Fractions: <<n, d>> with d > 0.
Frac(n, d) == <<n, d>>
FracSub(a, b) == Frac(a[1] * b[2] - b[1] * a[2], a[2] * b[2])
FracEq(a, b) == a[1] * b[2] = b[1] * a[2]

\* Equality of two means, either of which may be NaN.
MeanEq(a, b) == IF a = NaN \/ b = NaN THEN a = b ELSE FracEq(a, b)

-----------------------------------------------------------------------------
(* The pandas operations main() uses *)

month_order == <<"JULY", "AUGUST", "SEPTEMBER", "OCTOBER">>

\* Python's order of the strings that occur as Month or Fleet in the model.
StrOrder == <<"AUGUST", "DECEMBER", "F1", "F2", "JULY", "NOVEMBER",
              "OCTOBER", "SEPTEMBER">>

IndexOf(seq, x) == CHOOSE i \in 1..Len(seq) : seq[i] = x

StrLess(a, b) == IndexOf(StrOrder, a) < IndexOf(StrOrder, b)

\* df[c] as a sequence of cells.
Column(df, c) == [i \in 1..Len(df.rows) |-> df.rows[i][c]]

\* Series == value: elementwise, NaN equals nothing, itself included.
ElemEq(cell, value) == cell # NaN /\ value # NaN /\ cell = value

\* The column as it is, repeated values kept.
unique_omitted(s) == s

\* Series.unique(): distinct values in order of first occurrence; all NaN
\* count as one value.
RECURSIVE unique(_)
unique(s) ==
    IF s = <<>> THEN <<>>
    ELSE LET init == unique(SubSeq(s, 1, Len(s) - 1))
             last == s[Len(s)]
         IN  IF last \in Range(init) THEN init ELSE Append(init, last)

\* Series.count(): number of non-null cells.
RECURSIVE count(_)
count(s) ==
    IF s = <<>> THEN 0
    ELSE count(Tail(s)) + (IF Head(s) = NaN THEN 0 ELSE 1)

\* Series.sum(): NaN skipped, the empty sum is 0.
RECURSIVE sum(_)
sum(s) ==
    IF s = <<>> THEN 0
    ELSE sum(Tail(s)) + (IF Head(s) = NaN THEN 0 ELSE Val(Head(s)))

\* Series.mean(): over the non-null cells, NaN when there is none.
mean(s) == IF count(s) = 0 THEN NaN ELSE Frac(sum(s), count(s))

\* a + b and a - b on cells: NaN when either is.
CellAdd(a, b) == IF a = NaN \/ b = NaN THEN NaN ELSE Cell(Val(a) + Val(b))
CellSub(a, b) == IF a = NaN \/ b = NaN THEN NaN ELSE Cell(Val(a) - Val(b))

\* df[[c1, c2]].sum(axis=1): per row, NaN skipped.
RowSum(df, c1, c2) ==
    [i \in 1..Len(df.rows) |->
        Cell(sum(<<df.rows[i][c1], df.rows[i][c2]>>))]

\* df.drop(columns=cols), cols present.
drop(df, cols) ==
    [columns |-> df.columns \ cols,
     rows    |-> [i \in 1..Len(df.rows) |->
                    [c \in df.columns \ cols |-> df.rows[i][c]]]]

\* df[df[c] == value]
BoolIndex(df, c, value) ==
    [df EXCEPT !.rows = SelectSeq(df.rows, LAMBDA r : ElemEq(r[c], value))]

-----------------------------------------------------------------------------
(* Filter options (lines 26-30) and filtering (lines 39-48) *)

CategoricalColumns == {"ORIGIN", "DESTINATION", "Fleet", "Month"}
NumericColumns == {"TRIP RATE", "DISPATCH", "PROFIT"}
DroppedColumns == {"COMMISSION", "COST/LITRE"}

\* ['All'] + list(data[c].unique())
OptionList(df, c) == <<All>> \o unique(Column(df, c))

FilterOptions(df) ==
    [origin      |-> OptionList(df, "ORIGIN"),
     destination |-> OptionList(df, "DESTINATION"),
     fleet       |-> OptionList(df, "Fleet"),
     month       |-> OptionList(df, "Month")]

\* if selection != 'All': frame = frame[frame[c] == selection]
FilterStep(df, c, selection) ==
    IF selection # All THEN BoolIndex(df, c, selection) ELSE df

\* filtered_data = data.copy(), then the four steps in turn.
FilterData(df, sel) ==
    LET f1 == FilterStep(df, "ORIGIN", sel.origin)
        f2 == FilterStep(f1, "DESTINATION", sel.destination)
        f3 == FilterStep(f2, "Fleet", sel.fleet)
    IN  FilterStep(f3, "Month", sel.month)

\* DataFrame.empty
IsEmpty(df) == df.columns = {} \/ df.rows = <<>>

-----------------------------------------------------------------------------
(* Sidebar summary (lines 51-55) *)

Summarize(df) ==
    LET average_profit == mean(Column(df, "PROFIT"))
        total_mean     == mean(RowSum(df, "TRIP RATE", "DISPATCH"))
    IN  [total_trips    |-> count(Column(df, "ORIGIN")),
         total_revenue  |-> sum(Column(df, "TRIP RATE")),
         average_profit |-> average_profit,
         average_cost   |-> IF average_profit = NaN THEN NaN
                            ELSE FracSub(total_mean, average_profit)]

-----------------------------------------------------------------------------
(* Grouped aggregation (lines 68-82) *)

\* One row with the column TOTAL_COST = (TRIP RATE + DISPATCH) - PROFIT.
RowWithTotalCost(r) ==
    [c \in DOMAIN r \cup {"TOTAL_COST"} |->
        IF c = "TOTAL_COST"
        THEN CellSub(CellAdd(r["TRIP RATE"], r["DISPATCH"]), r["PROFIT"])
        ELSE r[c]]

WithTotalCost(df) ==
    [columns |-> df.columns \cup {"TOTAL_COST"},
     rows    |-> [i \in 1..Len(df.rows) |-> RowWithTotalCost(df.rows[i])]]

\* filtered_data bound to data itself instead of a copy: with no filter
\* active the two names are one frame, and the new column is on both.
AssignTotalCostNoCopy(frames) ==
    [data          |-> IF frames.filtered_data = frames.data
                       THEN WithTotalCost(frames.data) ELSE frames.data,
     filtered_data |-> WithTotalCost(frames.filtered_data)]

\* filtered_data['TOTAL_COST'] = ... (line 69).  filtered_data is a copy of
\* data (line 40), so the assignment leaves data as it was.
AssignTotalCost(frames) ==
    [data          |-> frames.data,
     filtered_data |-> WithTotalCost(frames.filtered_data)]

\* Group keys of groupby(['Month', 'Fleet']): rows with a NaN key are left
\* out (dropna=True by default).
GroupKeys(df) ==
    {<<r["Month"], r["Fleet"]>> :
        r \in {x \in Range(df.rows) : x["Month"] # NaN /\ x["Fleet"] # NaN}}

KeyLess(a, b) ==
    \/ StrLess(Val(a[1]), Val(b[1]))
    \/ a[1] = b[1] /\ StrLess(Val(a[2]), Val(b[2]))

\* The keys in sorted order (sort=True by default).
RECURSIVE SortedKeys(_)
SortedKeys(keys) ==
    IF keys = {} THEN <<>>
    ELSE LET first == CHOOSE k \in keys :
                          \A o \in keys \ {k} : KeyLess(k, o)
         IN  <<first>> \o SortedKeys(keys \ {first})

\* .agg(...) of one group.
Aggregate(df, key) ==
    LET group == [df EXCEPT !.rows = SelectSeq(df.rows,
                     LAMBDA r : r["Month"] = key[1] /\ r["Fleet"] = key[2])]
    IN  [Month           |-> key[1],
         Fleet           |-> key[2],
         number_of_trips |-> count(Column(group, "ORIGIN")),
         total_revenue   |-> sum(Column(group, "TRIP RATE")),
         average_profit  |-> mean(Column(group, "PROFIT")),
         average_cost    |-> mean(Column(group, "TOTAL_COST"))]

\* groupby(['Month', 'Fleet']).agg(...).reset_index()
GroupByMonthAndFleet(df) ==
    LET keys == SortedKeys(GroupKeys(df))
    IN  [i \in 1..Len(keys) |-> Aggregate(df, keys[i])]

\* pd.Categorical(values, categories=month_order, ordered=True): a value
\* that is no category becomes NaN.
Categorical(m) ==
    IF m # NaN /\ Val(m) \in Range(month_order) THEN m ELSE NaN

AsCategorical(rows) ==
    [i \in 1..Len(rows) |->
        [rows[i] EXCEPT !.Month = Categorical(rows[i].Month)]]

\* The Month sorted as the text it is, not by its category code.
MonthCodeAsText(m) ==
    IF m = NaN THEN Len(StrOrder) + 1 ELSE IndexOf(StrOrder, Val(m))

\* Sort position of a categorical Month: its category code, NaN last.
MonthCode(m) ==
    IF m = NaN THEN Len(month_order) + 1 ELSE IndexOf(month_order, Val(m))

\* Order of sort_values(['Month', 'Fleet']): ascending, NaN last.
RowLess(a, b) ==
    \/ MonthCode(a.Month) < MonthCode(b.Month)
    \/ /\ MonthCode(a.Month) = MonthCode(b.Month)
       /\ a.Fleet # NaN
       /\ b.Fleet = NaN \/ StrLess(Val(a.Fleet), Val(b.Fleet))

RECURSIVE InsertRow(_, _)
InsertRow(sorted, r) ==
    IF sorted = <<>> THEN <<r>>
    ELSE IF RowLess(r, Head(sorted)) THEN <<r>> \o sorted
    ELSE <<Head(sorted)>> \o InsertRow(Tail(sorted), r)

\* sort_values: stable.
RECURSIVE sort_values(_)
sort_values(rows) ==
    IF rows = <<>> THEN <<>>
    ELSE InsertRow(sort_values(SubSeq(rows, 1, Len(rows) - 1)),
                   rows[Len(rows)])

SummaryByMonthAndFleet(df) ==
    sort_values(AsCategorical(GroupByMonthAndFleet(df)))

-----------------------------------------------------------------------------
(* One run of main() (lines 8-115) *)

AllColumns == CategoricalColumns \cup NumericColumns \cup DroppedColumns

EmptyFrame == [columns |-> {}, rows |-> <<>>]
NoOptions == [origin |-> <<>>, destination |-> <<>>, fleet |-> <<>>,
              month |-> <<>>]
NoSummary == [total_trips |-> 0, total_revenue |-> 0,
              average_profit |-> NaN, average_cost |-> NaN]
AllSelected == [origin |-> All, destination |-> All, fleet |-> All,
                month |-> All]

Charts == {"trips_chart", "profit_chart", "cost_chart", "revenue_chart"}

\* What a run that ended before line 27 leaves: nothing but the title and,
\* for a failed read, the error message.
EarlyExit(how, elements) ==
    [status |-> how, shown |-> elements, options |-> NoOptions,
     data |-> EmptyFrame, filtered_data |-> EmptyFrame,
     displayed_data |-> EmptyFrame, summary |-> NoSummary,
     summary_by_month_and_fleet |-> <<>>]

\* pd.read_excel(uploaded_file, sheet_name='Sheet1') raises.
ReadRaises(file) == file.kind # "xlsx" \/ "Sheet1" \notin file.sheets

read_excel(file) == [columns |-> file.columns, rows |-> file.rows]

\* Lines 26-115, data being the frame after the drop of line 24.
Dashboard(df, sel) ==
    LET opts     == FilterOptions(df)
        filtered == FilterData(df, sel)
        widgets  == {"title", "filters"}
    IN  IF IsEmpty(filtered)
        THEN [status |-> "done",
              shown |-> widgets \cup {"filtered_table"},
              options |-> opts, data |-> df, filtered_data |-> filtered,
              displayed_data |-> filtered, summary |-> NoSummary,
              summary_by_month_and_fleet |-> <<>>]
        ELSE IF ~(NumericColumns \subseteq df.columns)
        THEN \* KeyError in lines 53-55, before anything of the summary
             \* is written
             [status |-> "key_error", shown |-> widgets,
              options |-> opts, data |-> df, filtered_data |-> filtered,
              displayed_data |-> EmptyFrame, summary |-> NoSummary,
              summary_by_month_and_fleet |-> <<>>]
        ELSE LET frames == AssignTotalCost(
                               [data |-> df, filtered_data |-> filtered])
             IN  [status |-> "done",
                  shown |-> widgets \cup {"summary", "filtered_table",
                                          "aggregate_table"} \cup Charts,
                  options |-> opts,
                  data |-> frames.data,
                  filtered_data |-> frames.filtered_data,
                  displayed_data |-> filtered,
                  summary |-> Summarize(filtered),
                  summary_by_month_and_fleet |->
                      SummaryByMonthAndFleet(frames.filtered_data)]

main(file, sel) ==
    IF file.kind = "none" THEN EarlyExit("no_file", {"title"})
    ELSE IF ReadRaises(file) THEN EarlyExit("read_error", {"title", "error"})
    ELSE IF ~(DroppedColumns \subseteq read_excel(file).columns)
    THEN EarlyExit("key_error", {"title"})
    ELSE IF ~(CategoricalColumns \subseteq read_excel(file).columns)
    THEN EarlyExit("key_error", {"title"})
    ELSE Dashboard(drop(read_excel(file), DroppedColumns), sel)

\* Whether a run on the file reaches the select boxes of lines 34-37.
ReachesFilters(file) ==
    /\ file.kind # "none"
    /\ ~ReadRaises(file)
    /\ DroppedColumns \cup CategoricalColumns \subseteq file.columns

\* The value of a select box in a run: a box keeps its value from the run
\* before when it was drawn there with the same options, and is at its
\* first option, 'All', otherwise.
BoxValue(old_options, new_options, old_value) ==
    IF old_options = new_options THEN old_value ELSE All

Selection(file) ==
    IF ~ReachesFilters(file) THEN AllSelected
    ELSE LET new == FilterOptions(drop(read_excel(file), DroppedColumns))
         IN  [origin      |-> BoxValue(options.origin, new.origin,
                                       selected.origin),
              destination |-> BoxValue(options.destination, new.destination,
                                       selected.destination),
              fleet       |-> BoxValue(options.fleet, new.fleet,
                                       selected.fleet),
              month       |-> BoxValue(options.month, new.month,
                                       selected.month)]

-----------------------------------------------------------------------------
(* Uploaded files *)

NoFile == [kind |-> "none", sheets |-> {}, columns |-> {}, rows |-> <<>>]

Row(origin, destination, fleet, month, trip_rate, dispatch, profit) ==
    [c \in AllColumns |->
        CASE c = "ORIGIN"      -> origin
          [] c = "DESTINATION" -> destination
          [] c = "Fleet"       -> fleet
          [] c = "Month"       -> month
          [] c = "TRIP RATE"   -> trip_rate
          [] c = "DISPATCH"    -> dispatch
          [] c = "PROFIT"      -> profit
          [] OTHER             -> Cell(0)]

BaseRow == Row(Cell("LAGOS"), Cell("KANO"), Cell("F1"), Cell("JULY"),
               Cell(10), Cell(5), Cell(4))

\* The rows sheets are made of: two rows that differ in every field, a
\* second fleet in the month of the first, months outside month_order, and
\* a row with an empty cell for each field the script reads.
Rows ==
    { BaseRow,
      Row(Cell("IBADAN"), Cell("ABUJA"), Cell("F2"), Cell("AUGUST"),
          Cell(20), Cell(3), Cell(7)),
      [BaseRow EXCEPT !["Fleet"] = Cell("F2"), !["TRIP RATE"] = Cell(30)],
      [BaseRow EXCEPT !["Month"] = Cell("NOVEMBER")],
      [BaseRow EXCEPT !["Month"] = Cell("DECEMBER")],
      [BaseRow EXCEPT !["ORIGIN"] = NaN],
      [BaseRow EXCEPT !["Fleet"] = NaN],
      [BaseRow EXCEPT !["Month"] = NaN],
      [BaseRow EXCEPT !["TRIP RATE"] = NaN],
      [BaseRow EXCEPT !["DISPATCH"] = NaN],
      [BaseRow EXCEPT !["PROFIT"] = NaN, !["TRIP RATE"] = Cell(40)] }

RECURSIVE SeqsUpTo(_, _)
SeqsUpTo(S, n) ==
    IF n = 0 THEN {<<>>}
    ELSE LET shorter == SeqsUpTo(S, n - 1)
         IN  shorter \cup {Append(s, x) : s \in shorter, x \in S}

Sheet(columns, rows) ==
    [kind |-> "xlsx", sheets |-> {"Sheet1"}, columns |-> columns,
     rows |-> [i \in 1..Len(rows) |-> [c \in columns |-> rows[i][c]]]]

\* Sheets with every column the script reads.
GoodFiles == {Sheet(AllColumns, rows) : rows \in SeqsUpTo(Rows, MaxRows)}

TwoRows == <<BaseRow, Row(Cell("IBADAN"), Cell("ABUJA"), Cell("F2"),
                          Cell("AUGUST"), Cell(20), Cell(3), Cell(7))>>

\* What cannot be read as the expected spreadsheet: bytes that are no
\* workbook, a workbook without Sheet1, a Sheet1 that lacks a column.
BadFiles ==
    { [kind |-> "other", sheets |-> {}, columns |-> {}, rows |-> <<>>],
      [Sheet(AllColumns, TwoRows) EXCEPT !.sheets = {"Data"}] }
    \cup {Sheet(AllColumns \ {c}, TwoRows) : c \in AllColumns}

Files == GoodFiles \cup BadFiles

-----------------------------------------------------------------------------
(* Interactions *)

\* The run of main() that follows an interaction.
Run(file, sel) ==
    \E r \in {main(file, sel)} :
        /\ uploaded_file' = file
        /\ selected' = sel
        /\ status' = r.status
        /\ shown' = r.shown
        /\ options' = r.options
        /\ data' = r.data
        /\ filtered_data' = r.filtered_data
        /\ displayed_data' = r.displayed_data
        /\ summary' = r.summary
        /\ summary_by_month_and_fleet' = r.summary_by_month_and_fleet

\* The page is opened: main() runs with no file.
Init ==
    LET r == main(NoFile, AllSelected)
    IN  /\ uploaded_file = NoFile
        /\ selected = AllSelected
        /\ status = r.status
        /\ shown = r.shown
        /\ options = r.options
        /\ data = r.data
        /\ filtered_data = r.filtered_data
        /\ displayed_data = r.displayed_data
        /\ summary = r.summary
        /\ summary_by_month_and_fleet = r.summary_by_month_and_fleet

\* A file is put into the empty uploader.
Upload ==
    /\ uploaded_file = NoFile
    /\ \E file \in Files : Run(file, Selection(file))

\* The uploaded sheet is replaced by an edited one: a row was added at its
\* end, or its last row was taken away.  (Any other replacement leads to a
\* state that Remove followed by Upload and selections leads to as well.)
Edited(file) ==
    LET longer  == IF Len(file.rows) < MaxRows
                   THEN {Append(file.rows, r) : r \in Rows} ELSE {}
        shorter == IF file.rows # <<>>
                   THEN {SubSeq(file.rows, 1, Len(file.rows) - 1)} ELSE {}
    IN  {Sheet(AllColumns, rows) : rows \in longer \cup shorter}

Replace ==
    /\ uploaded_file \in GoodFiles
    /\ \E file \in Edited(uploaded_file) : Run(file, Selection(file))

\* The uploaded file is removed.
Remove ==
    /\ uploaded_file # NoFile
    /\ Run(NoFile, AllSelected)

\* One of the four select boxes is set to another of its options.
SelectOrigin ==
    /\ "filters" \in shown
    /\ \E v \in Range(options.origin) :
        /\ v # selected.origin
        /\ Run(uploaded_file, [selected EXCEPT !.origin = v])

SelectDestination ==
    /\ "filters" \in shown
    /\ \E v \in Range(options.destination) :
        /\ v # selected.destination
        /\ Run(uploaded_file, [selected EXCEPT !.destination = v])

SelectFleet ==
    /\ "filters" \in shown
    /\ \E v \in Range(options.fleet) :
        /\ v # selected.fleet
        /\ Run(uploaded_file, [selected EXCEPT !.fleet = v])

SelectMonth ==
    /\ "filters" \in shown
    /\ \E v \in Range(options.month) :
        /\ v # selected.month
        /\ Run(uploaded_file, [selected EXCEPT !.month = v])

Next ==
    \/ Upload
    \/ Replace
    \/ Remove
    \/ SelectOrigin
    \/ SelectDestination
    \/ SelectFleet
    \/ SelectMonth

Spec == Init /\ [][Next]_vars

-----------------------------------------------------------------------------
(* Properties *)

\* The rows of a frame without the derived column.
SourceRows(df) ==
    [i \in 1..Len(df.rows) |->
        [c \in df.columns \ {"TOTAL_COST"} |-> df.rows[i][c]]]

\* A row satisfies a selection: in every field whose selection is not
\* 'All' its value is the selected value.
Matches(r, sel) ==
    /\ sel.origin # All => r["ORIGIN"] = sel.origin
    /\ sel.destination # All => r["DESTINATION"] = sel.destination
    /\ sel.fleet # All => r["Fleet"] = sel.fleet
    /\ sel.month # All => r["Month"] = sel.month

\* C1.  Whenever a run has filtered the table, the filtered set is the
\* sub-sequence, in table order, of the rows of the ingested table whose
\* value equals the selection in every field whose selection is not 'All'.
C1_FilteredIsMatchingSubsequence ==
    "filters" \in shown =>
        SourceRows(filtered_data)
            = SelectSeq(data.rows, LAMBDA r : Matches(r, selected))

\* C2.  Whenever the sidebar summary is shown, the trip count is the number
\* of rows of the filtered set, the total revenue is the sum of TRIP RATE
\* over them, and the average profit is the sum of PROFIT over them divided
\* by that number of rows.
C2_SummaryMetrics ==
    "summary" \in shown =>
        /\ summary.total_trips = Len(filtered_data.rows)
        /\ summary.total_revenue = sum(Column(filtered_data, "TRIP RATE"))
        /\ summary.average_profit # NaN
        /\ FracEq(summary.average_profit,
                  Frac(sum(Column(filtered_data, "PROFIT")),
                       Len(filtered_data.rows)))

RECURSIVE TotalTrips(_)
TotalTrips(rows) ==
    IF rows = <<>> THEN 0
    ELSE Head(rows).number_of_trips + TotalTrips(Tail(rows))

\* C3.  Whenever the aggregate table is shown, its number_of_trips values
\* sum to the number of rows of the filtered set.
C3_TripsAreConserved ==
    "aggregate_table" \in shown =>
        TotalTrips(summary_by_month_and_fleet) = Len(filtered_data.rows)

\* C4.  In the aggregate table as shown, no two rows carry the same
\* (Month, Fleet) pair.
C4_GroupKeysAreUnique ==
    \A i, j \in 1..Len(summary_by_month_and_fleet) :
        i # j =>
            \/ summary_by_month_and_fleet[i].Month
                   # summary_by_month_and_fleet[j].Month
            \/ summary_by_month_and_fleet[i].Fleet
                   # summary_by_month_and_fleet[j].Fleet

\* A Month of the fixed set.
KnownMonth(m) == m # NaN /\ Val(m) \in {"JULY", "AUGUST", "SEPTEMBER", "OCTOBER"}

\* JULY < AUGUST < SEPTEMBER < OCTOBER
Earlier(m, n) ==
    \/ m = "JULY" /\ n \in {"AUGUST", "SEPTEMBER", "OCTOBER"}
    \/ m = "AUGUST" /\ n \in {"SEPTEMBER", "OCTOBER"}
    \/ m = "SEPTEMBER" /\ n = "OCTOBER"

\* C5.  Of two rows of the aggregate table, the upper one never has the
\* later Month of the fixed set; a row whose Month is outside the fixed set
\* is never above a row whose Month is in it; and of two rows of the same
\* Month the upper one never has the greater Fleet.
C5_MonthOrdering ==
    \A i, j \in 1..Len(summary_by_month_and_fleet) :
        i < j =>
            LET a == summary_by_month_and_fleet[i]
                b == summary_by_month_and_fleet[j]
            IN  /\ KnownMonth(a.Month) /\ KnownMonth(b.Month)
                       => ~Earlier(Val(b.Month), Val(a.Month))
                /\ KnownMonth(b.Month) => KnownMonth(a.Month)
                /\ a.Month = b.Month
                       => ~StrLess(Val(b.Fleet), Val(a.Fleet))

\* C5 witness: a sheet with AUGUST above JULY, and a month outside the
\* fixed set that sorts before JULY as a string, shown with JULY first.
C5_Witness ==
    /\ "aggregate_table" \in shown
    /\ Len(data.rows) = 2
    /\ data.rows[1]["Month"] \in {Cell("AUGUST"), Cell("DECEMBER")}
    /\ data.rows[2]["Month"] = Cell("JULY")
    /\ Len(summary_by_month_and_fleet) = 2
    /\ summary_by_month_and_fleet[1].Month = Cell("JULY")

\* What cannot be read as the expected spreadsheet.
NotTheExpectedSpreadsheet(file) ==
    /\ file.kind # "none"
    /\ \/ file.kind # "xlsx"
       \/ "Sheet1" \notin file.sheets
       \/ ~(AllColumns \subseteq file.columns)

\* C6.  A run on a file that cannot be read as the expected spreadsheet
\* shows the error message and nothing else besides the title, and ends
\* by the return of line 21, not by an exception.
C6_IngestionFailureIsReported ==
    NotTheExpectedSpreadsheet(uploaded_file) =>
        /\ status = "read_error"
        /\ shown = {"title", "error"}

\* C7.  In a run that has filtered the table: an empty filtered set gives
\* no summary, no aggregate table and no chart, and the run ends normally;
\* and the summary and the aggregate table are produced exactly when the
\* filtered set is not empty.
C7_EmptySuppression ==
    "filters" \in shown =>
        /\ IsEmpty(filtered_data) =>
               /\ status = "done"
               /\ shown \cap ({"summary", "aggregate_table"} \cup Charts) = {}
        /\ "summary" \in shown <=> ~IsEmpty(filtered_data)
        /\ "aggregate_table" \in shown <=> ~IsEmpty(filtered_data)

\* C8.  Whenever the summary is shown, the sidebar's average cost equals
\* the mean of the derived cost the aggregation uses, over the rows of the
\* filtered set; and when the aggregate table has one group, it equals
\* that group's average_cost.
C8_AverageCostEquivalence ==
    "summary" \in shown =>
        /\ MeanEq(summary.average_cost,
                  mean(Column(filtered_data, "TOTAL_COST")))
        /\ Len(summary_by_month_and_fleet) = 1 =>
               MeanEq(summary.average_cost,
                      summary_by_month_and_fleet[1].average_cost)

FirstPlace(col, v) ==
    CHOOSE i \in 1..Len(col) : col[i] = v /\ \A k \in 1..(i - 1) : col[k] # v

\* A list is 'All' followed by each value of the column once, in order of
\* first occurrence.
IsOptionListOf(list, col) ==
    /\ Len(list) >= 1
    /\ list[1] = All
    /\ {list[i] : i \in 2..Len(list)} = Range(col)
    /\ \A i, j \in 2..Len(list) : i < j => list[i] # list[j]
    /\ \A i, j \in 2..Len(list) :
           i < j => FirstPlace(col, list[i]) < FirstPlace(col, list[j])

\* C10.  Whenever the select boxes are shown, each of the four option lists
\* is 'All' followed by each distinct value of its field in the ingested
\* table once, in order of first occurrence, whatever is selected.
C10_OptionLists ==
    "filters" \in shown =>
        /\ IsOptionListOf(options.origin, Column(data, "ORIGIN"))
        /\ IsOptionListOf(options.destination, Column(data, "DESTINATION"))
        /\ IsOptionListOf(options.fleet, Column(data, "Fleet"))
        /\ IsOptionListOf(options.month, Column(data, "Month"))

\* C10 witness: LAGOS occurs before IBADAN in the sheet and in the list,
\* the other way round than the alphabet has them, with a filter active.
C10_Witness ==
    /\ options.origin = <<All, Cell("LAGOS"), Cell("IBADAN")>>
    /\ selected.origin = Cell("IBADAN")
    /\ Len(data.rows) = 2

====
